---- MODULE Spec2Model ----
(***************************************************************************)
(* Model of the warehouse inbound reconciliation app (src/app.py).         *)
(*                                                                         *)
(* Session state (st.session_state): challan_data, scanned_stickers and    *)
(* reconciliation_report.  The handlers are the sidebar "Clear Session"    *)
(* button, "Process Challan", "Process All Stickers" and "Run              *)
(* Reconciliation".  run_reconciliation is modelled statement by           *)
(* statement as operators over the session state.                          *)
(*                                                                         *)
(* Representation                                                          *)
(*  - a Python str is a sequence of one-character strings;                 *)
(*  - a JSON value is a record [t, s, n]: t = "str" (s the text),          *)
(*    t = "int" (n the number) or t = "null";                              *)
(*  - a JSON object is a record carrying the set `keys` of the keys that   *)
(*    are present; the fields of absent keys hold the placeholder Null     *)
(*    and are never read (every read goes through Get);                    *)
(*  - a Python dict that is iterated (expected_items) is the sequence of   *)
(*    its entries in insertion order;                                      *)
(*  - the status labels are written without their decorative symbols.      *)
(***************************************************************************)
EXTENDS Integers, Sequences, FiniteSets, TLC

VARIABLES
    challan_data,           \* st.session_state.challan_data
    scanned_stickers,       \* st.session_state.scanned_stickers
    reconciliation_report,  \* st.session_state.reconciliation_report (may be absent)
    expected_items,         \* local of run_reconciliation when the call ended
    unmatched_stickers,     \* local of run_reconciliation when the call ended
    outcome,                \* how the last handler ended
    call_log,               \* results of the consecutive calls of
                            \* run_reconciliation, restarted by any other handler
    extractions             \* the (result, error) pairs process_image_with_ai
                            \* returned to the last handler, in file order

vars == <<challan_data, scanned_stickers, reconciliation_report,
          expected_items, unmatched_stickers, outcome, call_log, extractions>>

----------------------------------------------------------------------------
(* Bounds *)

MaxLines == 2      \* challan lines enumerated for the engine
MaxStickers == 2   \* scanned stickers enumerated for the engine
MaxCalls == 2      \* consecutive calls of run_reconciliation that are logged
MaxScanned == 3    \* stickers a session accumulates
MaxBatch == 2      \* sticker files uploaded to one "Process All Stickers"

----------------------------------------------------------------------------
(* JSON values and Python strings *)

Null == [t |-> "null", s |-> <<>>, n |-> 0]

StrV(s) == [t |-> "str", s |-> s, n |-> 0]

IntV(n) == [t |-> "int", s |-> <<>>, n |-> n]

\* dict.get(k, default)
Get(d, k, default) == IF k \in d.keys THEN d[k] ELSE default

Digit(n) ==
    CASE n = 0 -> "0" [] n = 1 -> "1" [] n = 2 -> "2" [] n = 3 -> "3"
      [] n = 4 -> "4" [] n = 5 -> "5" [] n = 6 -> "6" [] n = 7 -> "7"
      [] n = 8 -> "8" [] OTHER -> "9"

RECURSIVE Digits(_)
Digits(n) == IF n < 10 THEN <<Digit(n)>> ELSE Append(Digits(n \div 10), Digit(n % 10))

\* str(v) of a JSON value: the text itself, "None" for null, decimal for int
PyStr(v) ==
    CASE v.t = "str" -> v.s
      [] v.t = "null" -> <<"N", "o", "n", "e">>
      [] OTHER -> IF v.n < 0 THEN <<"-">> \o Digits(0 - v.n) ELSE Digits(v.n)

RECURSIVE LStrip(_)
LStrip(s) == IF s # <<>> /\ Head(s) = " " THEN LStrip(Tail(s)) ELSE s

RECURSIVE RStrip(_)
RStrip(s) ==
    IF s # <<>> /\ s[Len(s)] = " " THEN RStrip(SubSeq(s, 1, Len(s) - 1)) ELSE s

\* str.strip()
Strip(s) == RStrip(LStrip(s))

UpperChar(c) ==
    CASE c = "a" -> "A" [] c = "b" -> "B" [] c = "e" -> "E" [] c = "m" -> "M"
      [] c = "n" -> "N" [] c = "o" -> "O" [] c = "s" -> "S" [] c = "x" -> "X"
      [] OTHER -> c

\* str.upper()
Upper(s) == [i \in 1..Len(s) |-> UpperChar(s[i])]

\* str.startswith(prefix)
StartsWith(s, prefix) ==
    Len(prefix) <= Len(s) /\ SubSeq(s, 1, Len(prefix)) = prefix

----------------------------------------------------------------------------
(* run_reconciliation, src/app.py lines 116-174 *)

\* variant of NoChallan that forgets the test for the 'lines' key
NoChallanEmptyOnly(challan) == challan.keys = {}

\* line 118: the guard of the early return
NoChallan(challan) == challan.keys = {} \/ "lines" \notin challan.keys

\* lines 124-127
LineKey(line) ==
    << Strip(PyStr(Get(line, "material_description", StrV(<<>>)))),
       Upper(Strip(PyStr(Get(line, "size", StrV(<<>>))))) >>

KeyIndex(items, key) ==
    IF \E i \in 1..Len(items) : items[i].key = key
    THEN CHOOSE i \in 1..Len(items) : items[i].key = key
    ELSE 0

\* lines 128-129: insert a zero counter on the first encounter of a key
InsertKey(items, key) ==
    IF KeyIndex(items, key) = 0
    THEN Append(items, [key |-> key, expected |-> 0, received |-> 0])
    ELSE items

\* variant of AddLine that assigns the quantity instead of accumulating it
AddLineOverwrite(acc, line) ==
    LET key == LineKey(line)
        items == InsertKey(acc.items, key)
        qty == Get(line, "qty_units_expected", IntV(0))
        i == KeyIndex(items, key)
    IN IF qty.t = "int"
       THEN [raised |-> FALSE,
             items |-> [items EXCEPT ![i].expected = qty.n]]
       ELSE [raised |-> TRUE, items |-> items]

\* line 130: expected += line.get('qty_units_expected', 0); int + (None | str)
\* raises TypeError, after the key was inserted
AddLine(acc, line) ==
    LET key == LineKey(line)
        items == InsertKey(acc.items, key)
        qty == Get(line, "qty_units_expected", IntV(0))
        i == KeyIndex(items, key)
    IN IF qty.t = "int"
       THEN [raised |-> FALSE,
             items |-> [items EXCEPT ![i].expected = @ + qty.n]]
       ELSE [raised |-> TRUE, items |-> items]

\* lines 122-130: the loop over the challan lines, stopped by an exception
RECURSIVE BuildExpected(_, _, _)
BuildExpected(acc, lines, i) ==
    IF acc.raised \/ i > Len(lines) THEN acc
    ELSE BuildExpected(AddLine(acc, lines[i]), lines, i + 1)

\* variant of ScanKeys without the break: the last qualifying key wins
RECURSIVE ScanKeysLast(_, _, _, _)
ScanKeysLast(items, sticker_style, sticker_size, i) ==
    IF i > Len(items) THEN 0
    ELSE LET later == ScanKeysLast(items, sticker_style, sticker_size, i + 1)
         IN IF later # 0 THEN later
            ELSE IF StartsWith(items[i].key[1], sticker_style)
                    /\ items[i].key[2] = sticker_size
                 THEN i
                 ELSE 0

\* lines 139-146: index of the key the inner loop breaks at, 0 if it ends
RECURSIVE ScanKeys(_, _, _, _)
ScanKeys(items, sticker_style, sticker_size, i) ==
    IF i > Len(items) THEN 0
    ELSE IF StartsWith(items[i].key[1], sticker_style)
            /\ items[i].key[2] = sticker_size
         THEN i
         ELSE ScanKeys(items, sticker_style, sticker_size, i + 1)

\* variant of MatchSticker that never sets match_found
MatchStickerNoFlag(st, sticker) ==
    LET sticker_style == Strip(PyStr(Get(sticker, "style", StrV(<<>>))))
        sticker_size == Upper(Strip(PyStr(Get(sticker, "code_size", StrV(<<>>)))))
        i == ScanKeys(st.items, sticker_style, sticker_size, 1)
    IN [items |-> IF i # 0 THEN [st.items EXCEPT ![i].received = @ + 1] ELSE st.items,
        unmatched |-> Append(st.unmatched, sticker)]

\* lines 135-149: one iteration of the loop over the stickers
MatchSticker(st, sticker) ==
    LET sticker_style == Strip(PyStr(Get(sticker, "style", StrV(<<>>))))
        sticker_size == Upper(Strip(PyStr(Get(sticker, "code_size", StrV(<<>>)))))
        i == ScanKeys(st.items, sticker_style, sticker_size, 1)
    IN IF i # 0
       THEN [items |-> [st.items EXCEPT ![i].received = @ + 1],
             unmatched |-> st.unmatched]
       ELSE [items |-> st.items, unmatched |-> Append(st.unmatched, sticker)]

\* lines 132-149
RECURSIVE MatchStickers(_, _, _)
MatchStickers(st, stickers, i) ==
    IF i > Len(stickers) THEN st
    ELSE MatchStickers(MatchSticker(st, stickers[i]), stickers, i + 1)

\* variant of StatusOf whose first comparison is <= instead of ==
StatusOfLaxMatch(variance) ==
    IF variance <= 0 THEN "MATCH" ELSE IF variance < 0 THEN "SHORT" ELSE "OVER"

\* line 154
StatusOf(variance) ==
    IF variance = 0 THEN "MATCH" ELSE IF variance < 0 THEN "SHORT" ELSE "OVER"

\* lines 153-162
IndexedRow(item) ==
    LET variance == item.received - item.expected
    IN [ChallanDescription |-> item.key[1],
        Size |-> StrV(item.key[2]),
        Expected |-> item.expected,
        Received |-> item.received,
        Variance |-> variance,
        Status |-> StatusOf(variance)]

UnmatchedMarker == <<"(UNMATCHED SCAN) ">>

\* lines 165-172
UnmatchedRow(sticker) ==
    [ChallanDescription |-> UnmatchedMarker \o PyStr(Get(sticker, "style", StrV(<<>>))),
     Size |-> Get(sticker, "code_size", StrV(<<>>)),
     Expected |-> 0,
     Received |-> 1,
     Variance |-> 1,
     Status |-> "OVER"]

\* variant of BuildReport that emits the unmatched rows first
BuildReportUnmatchedFirst(items, unmatched) ==
    [j \in 1..Len(unmatched) |-> UnmatchedRow(unmatched[j])]
        \o [i \in 1..Len(items) |-> IndexedRow(items[i])]

\* lines 151-174
BuildReport(items, unmatched) ==
    [i \in 1..Len(items) |-> IndexedRow(items[i])]
        \o [j \in 1..Len(unmatched) |-> UnmatchedRow(unmatched[j])]

\* variant of FreshItems that keeps the counters of the previous call
StaleItems(previous) == previous

\* line 122: expected_items = {}
FreshItems(previous) == <<>>

\* The whole function: what it returns (kind "NoChallan" is `return None`,
\* "TypeError" an exception that leaves the function) and the locals it built.
run_reconciliation(challan, stickers, previous) ==
    IF NoChallan(challan)
    THEN [kind |-> "NoChallan", rows |-> <<>>, items |-> <<>>, unmatched |-> <<>>]
    ELSE LET built == BuildExpected([raised |-> FALSE, items |-> FreshItems(previous)],
                                    Get(challan, "lines", <<>>), 1)
         IN IF built.raised
            THEN [kind |-> "TypeError", rows |-> <<>>,
                  items |-> built.items, unmatched |-> <<>>]
            ELSE LET m == MatchStickers([items |-> built.items, unmatched |-> <<>>],
                                        stickers, 1)
                 IN [kind |-> "Report",
                     rows |-> BuildReport(m.items, m.unmatched),
                     items |-> m.items,
                     unmatched |-> m.unmatched]

----------------------------------------------------------------------------
(* Inputs: what the document extractor (process_image_with_ai) can return *)

Absent == [t |-> "absent", s |-> <<>>, n |-> 0]

Present(v) == IF v = Absent THEN Null ELSE v

\* one element of "lines"; a field given as Absent is a key the object lacks
MkLine(d, s, q) ==
    [keys |-> {k \in {"material_description", "size", "qty_units_expected"} :
                  \/ k = "material_description" /\ d # Absent
                  \/ k = "size" /\ s # Absent
                  \/ k = "qty_units_expected" /\ q # Absent},
     material_description |-> Present(d),
     size |-> Present(s),
     qty_units_expected |-> Present(q)]

MkSticker(style, code_size) ==
    [keys |-> {k \in {"style", "code_size"} :
                  \/ k = "style" /\ style # Absent
                  \/ k = "code_size" /\ code_size # Absent},
     style |-> Present(style),
     code_size |-> Present(code_size)]

\* {} : the initial and the cleared challan
EmptyDict == [keys |-> {}, lines |-> <<>>]

\* a challan object without the "lines" key
NoLinesChallan == [keys |-> {"challan_number"}, lines |-> <<>>]

MkChallan(lines) == [keys |-> {"challan_number", "lines"}, lines |-> lines]

SeqsUpTo(S, n) == UNION {[1..k -> S] : k \in 0..n}

\* descriptions, sizes and quantities as the extractor may write them
DescAb == StrV(<<"A", "b">>)

DescAbPadded == StrV(<<" ", "A", "b", " ">>)

DescA == StrV(<<"A">>)

SizeM == StrV(<<"M">>)

SizeMLower == StrV(<<" ", "m", " ">>)

SizeS == StrV(<<"S">>)

EngineLines ==
    {MkLine(DescAb, SizeM, IntV(2)),
     MkLine(DescAbPadded, SizeMLower, IntV(1)),
     MkLine(DescA, SizeM, IntV(1)),
     MkLine(DescAb, SizeS, IntV(1)),
     MkLine(DescAb, SizeM, Null),
     MkLine(Null, Absent, Absent),
     MkLine(Absent, SizeS, StrV(<<"x">>))}

EngineChallans ==
    {EmptyDict, NoLinesChallan} \cup {MkChallan(ls) : ls \in SeqsUpTo(EngineLines, MaxLines)}

EngineStickers ==
    {MkSticker(DescA, SizeMLower),
     MkSticker(DescAb, SizeMLower),
     MkSticker(StrV(<<"a", "b">>), SizeMLower),
     MkSticker(DescA, SizeS),
     MkSticker(Null, Absent)}

\* the challans and stickers the extractor returns in the session machine
ChallanResults ==
    {EmptyDict,
     NoLinesChallan,
     MkChallan(<<MkLine(DescAb, SizeM, IntV(2)), MkLine(DescA, SizeM, IntV(1))>>),
     MkChallan(<<MkLine(DescAb, SizeM, Null)>>)}

StickerResults ==
    {MkSticker(DescA, SizeMLower),
     MkSticker(StrV(<<"a">>), SizeS)}

\* (result, error) of process_image_with_ai, lines 103-108
Extracted(result) == [error |-> FALSE, result |-> result]

ExtractionError == [error |-> TRUE, result |-> EmptyDict]

----------------------------------------------------------------------------
(* The session machine *)

NoReport == [present |-> FALSE, rows |-> <<>>]

\* lines 56-59
Init ==
    /\ challan_data = EmptyDict
    /\ scanned_stickers = <<>>
    /\ reconciliation_report = NoReport
    /\ expected_items = <<>>
    /\ unmatched_stickers = <<>>
    /\ outcome = "start"
    /\ call_log = <<>>
    /\ extractions = <<>>

\* a handler other than run_reconciliation ends: no call locals, log restarts
EndHandler(message, extracted) ==
    /\ extractions' = extracted
    /\ expected_items' = <<>>
    /\ unmatched_stickers' = <<>>
    /\ outcome' = message
    /\ call_log' = <<>>

\* lines 110-114 (called from line 183)
clear_session ==
    /\ challan_data' = EmptyDict
    /\ scanned_stickers' = <<>>
    /\ UNCHANGED reconciliation_report
    /\ EndHandler("cleared", <<>>)

\* lines 212-221
ProcessChallan ==
    \E x \in {Extracted(c) : c \in ChallanResults} \cup {ExtractionError} :
        /\ challan_data' = IF x.error THEN challan_data ELSE x.result
        /\ UNCHANGED <<scanned_stickers, reconciliation_report>>
        /\ EndHandler(IF x.error THEN "challan_error" ELSE "challan_processed", <<x>>)

\* variant of Successes that appends the result of a failed extraction too
AllResults(batch) == [i \in 1..Len(batch) |-> batch[i].result]

\* the results line 273 appends, in file order
RECURSIVE Successes(_)
Successes(batch) ==
    IF batch = <<>> THEN <<>>
    ELSE (IF Head(batch).error THEN <<>> ELSE <<Head(batch).result>>)
            \o Successes(Tail(batch))

\* lines 243-277
ProcessAllStickers ==
    /\ challan_data.keys # {}
    /\ \E batch \in SeqsUpTo({Extracted(s) : s \in StickerResults}
                                \cup {ExtractionError}, MaxBatch) :
        /\ batch # <<>>
        /\ Len(scanned_stickers) + Len(Successes(batch)) <= MaxScanned
        /\ scanned_stickers' = scanned_stickers \o Successes(batch)
        /\ UNCHANGED <<challan_data, reconciliation_report>>
        /\ EndHandler("stickers_processed", batch)

\* a call of run_reconciliation: lines 116-174
CallRunReconciliation(r) ==
    /\ Len(call_log) < MaxCalls
    /\ r = run_reconciliation(challan_data, scanned_stickers, expected_items)
    /\ expected_items' = r.items
    /\ unmatched_stickers' = r.unmatched
    /\ outcome' = r.kind
    /\ call_log' = Append(call_log, [kind |-> r.kind, rows |-> r.rows])
    /\ extractions' = <<>>
    /\ UNCHANGED <<challan_data, scanned_stickers>>

\* lines 288-305: the button exists only with a challan and a sticker
RunReconciliation ==
    /\ challan_data.keys # {}
    /\ scanned_stickers # <<>>
    /\ \E r \in {run_reconciliation(challan_data, scanned_stickers, expected_items)} :
        /\ CallRunReconciliation(r)
        /\ reconciliation_report' =
              IF r.kind = "Report" THEN [present |-> TRUE, rows |-> r.rows]
              ELSE reconciliation_report

Next ==
    \/ clear_session
    \/ ProcessChallan
    \/ ProcessAllStickers
    \/ RunReconciliation

Spec == Init /\ [][Next]_vars

\* lines 288-312: the dashboard shows the stored report
ReportDisplayed ==
    /\ challan_data.keys # {}
    /\ scanned_stickers # <<>>
    /\ reconciliation_report.present

----------------------------------------------------------------------------
(* The engine on its own: run_reconciliation applied to every bounded input *)

InitEngine ==
    /\ challan_data \in EngineChallans
    /\ scanned_stickers \in SeqsUpTo(EngineStickers, MaxStickers)
    /\ reconciliation_report = NoReport
    /\ expected_items = <<>>
    /\ unmatched_stickers = <<>>
    /\ outcome = "start"
    /\ call_log = <<>>
    /\ extractions = <<>>

EngineCall ==
    /\ \E r \in {run_reconciliation(challan_data, scanned_stickers, expected_items)} :
        CallRunReconciliation(r)
    /\ UNCHANGED reconciliation_report

NextEngine == EngineCall

SpecEngine == InitEngine /\ [][NextEngine]_vars

----------------------------------------------------------------------------
(* Vocabulary of the properties, stated on the inputs and on the report,   *)
(* independently of the loops of run_reconciliation                        *)

Called == call_log # <<>>

Returned == call_log[Len(call_log)]

ReportReturned == Called /\ Returned.kind = "Report"

Lines == challan_data.lines

\* positions of the challan lines whose key occurs there for the first time
FirstSeenAt(lines) ==
    {i \in 1..Len(lines) : \A j \in 1..(i - 1) : LineKey(lines[j]) # LineKey(lines[i])}

\* the distinct keys in the order in which the challan first shows them
KeysInOrder(lines) ==
    LET at == FirstSeenAt(lines)
    IN [n \in 1..Cardinality(at) |->
           LineKey(lines[CHOOSE i \in at : Cardinality({j \in at : j <= i}) = n])]

Keys == KeysInOrder(Lines)

NumKeys == Len(Keys)

RowKey(row) == <<row.ChallanDescription, row.Size.s>>

RECURSIVE SumOver(_, _)
SumOver(f, S) ==
    IF S = {} THEN 0
    ELSE LET x == CHOOSE y \in S : TRUE IN f[x] + SumOver(f, S \ {x})

\* the quantity a line states, 0 when the key is missing
StatedQty(line) ==
    IF "qty_units_expected" \in line.keys THEN line.qty_units_expected.n ELSE 0

IsPrefixOf(p, d) == Len(p) <= Len(d) /\ \A i \in 1..Len(p) : d[i] = p[i]

\* the matching predicate between a key and a sticker
Satisfies(key, sticker) ==
    /\ IsPrefixOf(Strip(PyStr(Get(sticker, "style", StrV(<<>>)))), key[1])
    /\ key[2] = Upper(Strip(PyStr(Get(sticker, "code_size", StrV(<<>>)))))

\* the first of the keys, in their order, that satisfies the predicate; 0 if none
FirstSatisfying(keys, sticker) ==
    IF \E n \in 1..Len(keys) : Satisfies(keys[n], sticker)
    THEN CHOOSE n \in 1..Len(keys) :
            /\ Satisfies(keys[n], sticker)
            /\ \A m \in 1..(n - 1) : ~Satisfies(keys[m], sticker)
    ELSE 0

\* for each scanned sticker, the key it is due to (0: none)
DueKeys(keys, stickers) ==
    [j \in 1..Len(stickers) |-> FirstSatisfying(keys, stickers[j])]

\* the stickers no key satisfies, in scan order
Unmatched(due, stickers) ==
    LET at == {j \in 1..Len(stickers) : due[j] = 0}
    IN [n \in 1..Cardinality(at) |->
           stickers[CHOOSE j \in at : Cardinality({k \in at : k <= j}) = n]]

----------------------------------------------------------------------------
(* Properties of run_reconciliation, checked under SpecEngine *)

\* C1: a call returns the no-challan outcome exactly when the challan is
\* empty or has no 'lines' key, whatever the stickers; in that case no counter
\* was built, no sticker was set aside and no report row was produced.
C1_NoChallanExactly ==
    Called =>
        /\ (Returned.kind = "NoChallan")
              <=> (challan_data.keys = {} \/ "lines" \notin challan_data.keys)
        /\ Returned.kind = "NoChallan" =>
              /\ expected_items = <<>>
              /\ unmatched_stickers = <<>>
              /\ Returned.rows = <<>>

C1_Witness ==
    /\ Called
    /\ Returned.kind = "NoChallan"
    /\ challan_data.keys = {"challan_number"}
    /\ Len(scanned_stickers) = 2

\* C2: whenever the challan has a 'lines' field the call returns a report;
\* a missing or non-numeric quantity counts as 0 and nothing aborts.
C2_AlwaysSucceeds ==
    (Called /\ "lines" \in challan_data.keys) => Returned.kind = "Report"

\* C3: the report has exactly one indexed row per distinct key of the challan
\* lines, and its Expected is the sum of the quantities of the lines with
\* that key.
C3_OneRowPerKeySummed ==
    ReportReturned =>
        LET rows == Returned.rows
            n == NumKeys
        IN /\ Len(rows) >= n
           /\ \A i \in 1..Len(Lines) :
                 LET k == LineKey(Lines[i])
                     at == {r \in 1..n : RowKey(rows[r]) = k}
                     same == {j \in 1..Len(Lines) : LineKey(Lines[j]) = k}
                 IN /\ Cardinality(at) = 1
                    /\ \A r \in at :
                          rows[r].Expected
                             = SumOver([j \in same |-> StatedQty(Lines[j])], same)

\* two lines that differ as written, normalise to one key: one row, Expected 3
C3_Witness ==
    /\ ReportReturned
    /\ Len(Lines) = 2
    /\ Lines[1] # Lines[2]
    /\ Lines[1].qty_units_expected = IntV(2)
    /\ Lines[2].qty_units_expected = IntV(1)
    /\ NumKeys = 1
    /\ Returned.rows[1].Expected = 3

\* C4: each sticker is counted on the first key, in first-seen order, whose
\* description starts with the trimmed style and whose size equals the
\* trimmed, uppercased code_size; it is unmatched only if no key qualifies.
C4_FirstMatchWins ==
    ReportReturned =>
        LET rows == Returned.rows
            keys == Keys
            due == DueKeys(keys, scanned_stickers)
        IN /\ Len(rows) = Len(keys) + Cardinality({j \in DOMAIN due : due[j] = 0})
           /\ \A n \in 1..Len(keys) :
                 rows[n].Received = Cardinality({j \in DOMAIN due : due[j] = n})

\* keys ("Ab","M") then ("A","M"); sticker ("A"," m ") qualifies for both and
\* is counted on the first; sticker ("ab"," m ") differs in case: unmatched
C4_Witness ==
    /\ ReportReturned
    /\ Lines = <<MkLine(DescAb, SizeM, IntV(2)), MkLine(DescA, SizeM, IntV(1))>>
    /\ scanned_stickers = <<MkSticker(DescA, SizeMLower),
                            MkSticker(StrV(<<"a", "b">>), SizeMLower)>>
    /\ Len(Returned.rows) = 3
    /\ Returned.rows[1].Received = 1
    /\ Returned.rows[2].Received = 0

\* C5: every sticker is counted exactly once, on one indexed key or as one
\* unmatched row (Expected 0, Received 1, Variance 1, OVER): the Received of
\* the indexed rows plus the number of unmatched rows is the sticker count.
C5_CountedOnce ==
    ReportReturned =>
        LET rows == Returned.rows
            n == NumKeys
        IN /\ Len(rows) >= n
           /\ SumOver([r \in 1..n |-> rows[r].Received], 1..n) + (Len(rows) - n)
                 = Len(scanned_stickers)
           /\ \A u \in (n + 1)..Len(rows) :
                 /\ rows[u].Expected = 0
                 /\ rows[u].Received = 1
                 /\ rows[u].Variance = 1
                 /\ rows[u].Status = "OVER"

C5_Witness ==
    /\ ReportReturned
    /\ NumKeys = 2
    /\ Len(scanned_stickers) = 2
    /\ Len(Returned.rows) = 3
    /\ Returned.rows[1].Received + Returned.rows[2].Received = 1

\* C6: in every row Variance = Received - Expected, and the status is MATCH
\* iff Variance = 0, SHORT iff Variance < 0, OVER iff Variance > 0.
C6_VarianceStatus ==
    ReportReturned =>
        \A r \in 1..Len(Returned.rows) :
            LET row == Returned.rows[r]
            IN /\ row.Variance = row.Received - row.Expected
               /\ row.Status \in {"MATCH", "SHORT", "OVER"}
               /\ row.Status = "MATCH" <=> row.Variance = 0
               /\ row.Status = "SHORT" <=> row.Variance < 0
               /\ row.Status = "OVER" <=> row.Variance > 0

\* a key received as expected, a key one short, and a row one over
C6_Witness ==
    /\ ReportReturned
    /\ \E r \in 1..NumKeys :
          /\ Returned.rows[r].Received = 1
          /\ Returned.rows[r].Status = "MATCH"
    /\ \E r \in 1..NumKeys :
          /\ Returned.rows[r].Variance = -1
          /\ Returned.rows[r].Status = "SHORT"
    /\ \E r \in 1..Len(Returned.rows) :
          /\ Returned.rows[r].Variance = 1
          /\ Returned.rows[r].Status = "OVER"

\* C7: the indexed rows come first, in the order in which the challan first
\* shows their keys; the unmatched rows follow in scan order, each with the
\* marker and the sticker's style, and the sticker's code_size.
C7_RowOrder ==
    ReportReturned =>
        LET rows == Returned.rows
            keys == Keys
            unm == Unmatched(DueKeys(keys, scanned_stickers), scanned_stickers)
        IN /\ Len(rows) = Len(keys) + Len(unm)
           /\ \A n \in 1..Len(keys) : RowKey(rows[n]) = keys[n]
           /\ \A u \in 1..Len(unm) :
                 /\ rows[Len(keys) + u].ChallanDescription
                       = UnmatchedMarker \o PyStr(Get(unm[u], "style", StrV(<<>>)))
                 /\ rows[Len(keys) + u].Size = Get(unm[u], "code_size", StrV(<<>>))

\* two keys and two different unmatched stickers
C7_Witness ==
    /\ ReportReturned
    /\ NumKeys = 2
    /\ Len(Returned.rows) = 4
    /\ scanned_stickers[1] # scanned_stickers[2]
    /\ Returned.rows[3] # Returned.rows[4]

\* C8: a call leaves the challan and the sticker sequence as they were, and
\* consecutive calls on the unchanged inputs return identical results.
C8_InputsKeptCallsAgree ==
    [][Len(call_log') = Len(call_log) + 1 =>
          /\ challan_data' = challan_data
          /\ scanned_stickers' = scanned_stickers
          /\ \A i \in 1..Len(call_log') : call_log'[i] = call_log'[1]]_vars

C8_Witness ==
    /\ Len(call_log) = 2
    /\ call_log[2].kind = "Report"
    /\ Len(call_log[2].rows) = 3
    /\ call_log[2].rows[1].Received = 1

----------------------------------------------------------------------------
(* Properties of the session, checked under Spec *)

IsPrefix(a, b) == Len(a) <= Len(b) /\ SubSeq(b, 1, Len(a)) = a

Succeeded(x) == ~x.error

\* C9: the sticker sequence only grows at its end, by the stickers whose
\* extraction succeeded, in file order; only clear_session empties it, and a
\* challan step leaves it unchanged.
C9_StickersAppendOnly ==
    [][/\ \/ IsPrefix(scanned_stickers, scanned_stickers')
          \/ outcome' = "cleared" /\ scanned_stickers' = <<>>
       /\ outcome' = "cleared" => scanned_stickers' = <<>>
       /\ outcome' \in {"challan_processed", "challan_error"}
             => scanned_stickers' = scanned_stickers
       /\ outcome' = "stickers_processed" =>
             LET ok == SelectSeq(extractions', Succeeded)
             IN scanned_stickers'
                   = scanned_stickers \o [i \in 1..Len(ok) |-> ok[i].result]
       /\ outcome' \in {"NoChallan", "TypeError", "Report"}
             => scanned_stickers' = scanned_stickers]_vars

\* a batch of two files, the first failed: one sticker appended to two
C9_Witness ==
    /\ outcome = "stickers_processed"
    /\ Len(extractions) = 2
    /\ extractions[1].error
    /\ ~extractions[2].error
    /\ Len(scanned_stickers) = 3
    /\ scanned_stickers[3] = extractions[2].result

\* C10: whenever the dashboard displays a report, it is the reconciliation of
\* the current challan against the current sticker sequence.
C10_DisplayedReportCurrent ==
    ReportDisplayed =>
        LET now == run_reconciliation(challan_data, scanned_stickers, <<>>)
        IN now.kind = "Report" /\ reconciliation_report.rows = now.rows

====
